---- MODULE Spec2Model ----
(***************************************************************************)
(* Text prediction notebook (223-text-prediction): the top-k sampling      *)
(* decoding loop generate_sequence, its numeric transforms, and the        *)
(* conversation wrapper converse / Conversation.chat.                      *)
(*                                                                         *)
(* Arrays of shape (1, n) are modelled as sequences of length n (the batch *)
(* dimension is always 1).  A logits row is a function from vocabulary     *)
(* indices to scores; a logits tensor is a sequence of rows, one per       *)
(* sequence position.  Text is a sequence of character codes.              *)
(***************************************************************************)
EXTENDS Integers, Sequences, FiniteSets, TLC

\* ------------------------------------------------------------------ bounds
VocabSize == 3
MaxPromptLen == 2
MaxSeqLen == 4
MaxHistory == 5
MaxTextLen == 2
MaxTurns == 2
MaxScore == 2

\* --------------------------------------------------------------- constants
\* filter_value = -float("inf"): a score below every finite score of the model
NegInf == -1
\* tokenizer.eos_token_id
eos_token_id == 0
\* top_k = 20 in generate_sequence
top_k == 20
\* max_sequence_length=1000 passed by converse
ConverseMaxLength == 1000

Vocab == 0..(VocabSize - 1)

\* the longest token sequence the model tracks in a direct call
MaxIds == MaxSeqLen + 1

VARIABLES
    pc,                         \* "IDLE", "RUNNING" (inside the while loop), "DONE" (after break),
                                \* "FAILED" (an exception left the call)
    compiled_model,             \* the compiled model in use: free, or a stub favouring one token
    prompt_ids,                 \* the caller's input_ids as passed to generate_sequence
    prompt_mask,                \* the caller's attention_mask as passed to generate_sequence
    input_ids,                  \* generate_sequence's input_ids
    attention_mask,             \* generate_sequence's attention_mask
    max_sequence_length,        \* parameter of generate_sequence
    dynamic_shapes,             \* parameter of generate_sequence
    model_input_ids,            \* input_ids of the last model call
    model_input_attention_mask, \* attention_mask of the last model call
    outputs,                    \* the logits the last model call returned, one row per position
    next_token_scores,          \* filtered scores of the last iteration
    next_tokens,                \* the token sampled by the last iteration (<<>> before the first)
    sampled,                    \* every token sampled in this call, in sampling order
    model_calls,                \* the number of times this call has invoked compiled_model
    input_text,                 \* the user text of the current chat call
    history,                    \* Conversation.history
    messages,                   \* Conversation.messages
    response,                   \* the response returned by the last chat call
    fn,                         \* the numeric transform called on its own ("none" before the call)
    fn_scores_in,               \* the values of the caller's scores array when the call is made
    fn_scores,                  \* the values of the caller's scores array now
    fn_args,                    \* the other arguments of the call
    fn_result,                  \* the array the call returned
    padded_run                  \* a second call, made with dynamic_shapes=False on the same
                                \* prompt: its pc, input_ids, attention_mask and model_calls

vars == <<pc, compiled_model, prompt_ids, prompt_mask, input_ids, attention_mask,
          max_sequence_length, dynamic_shapes, model_input_ids,
          model_input_attention_mask, outputs, next_token_scores, next_tokens,
          sampled, model_calls, input_text, history, messages, response,
          fn, fn_scores_in, fn_scores, fn_args, fn_result, padded_run>>

gen_vars == <<input_ids, attention_mask, model_input_ids, model_input_attention_mask, outputs,
              next_token_scores, next_tokens, sampled, model_calls>>
chat_vars == <<input_text, history, messages, response>>
fn_vars == <<fn, fn_scores_in, fn_scores, fn_args, fn_result>>

\* ----------------------------------------------------------------- helpers
\* the sum of a sequence of numbers (halved, so that long sequences are summed
\* without deep nesting)
RECURSIVE SumSeq(_)
SumSeq(s) ==
    IF s = <<>> THEN 0
    ELSE IF Len(s) = 1 THEN s[1]
    ELSE LET mid == Len(s) \div 2
         IN  SumSeq(SubSeq(s, 1, mid)) + SumSeq(SubSeq(s, mid + 1, Len(s)))

RECURSIVE Pow2(_)
Pow2(n) == IF n <= 0 THEN 1 ELSE 2 * Pow2(n - 1)

\* [x] * n of Python: n copies of x, the empty list when n <= 0
Repeat(x, n) == IF n <= 0 THEN <<>> ELSE [i \in 1..n |-> x]

Last(s) == s[Len(s)]

IsPrefix(p, s) == Len(p) <= Len(s) /\ SubSeq(s, 1, Len(p)) = p

SeqsUpTo(S, lo, hi) == UNION {[1..n -> S] : n \in lo..hi}

RowMax(x) == CHOOSE m \in {x[i] : i \in DOMAIN x} : \A i \in DOMAIN x : x[i] <= m

\* ------------------------------------------------------ numeric transforms
\* softmax: e_x = exp(x - max), summation = sum(e_x), result e_x / summation.
\* Probabilities are kept as exact fractions num[i] / den; the exponential is
\* taken to base 2 and scaled by 2^(max - NegInf) so that every weight is an
\* integer; exp(-inf) is exactly 0.
softmax(x) ==
    LET m == RowMax(x)
        e_x == [i \in DOMAIN x |->
                   IF x[i] = NegInf THEN 0 ELSE Pow2((m - NegInf) - (m - x[i]))]
        summation == SumSeq([k \in 1..Cardinality(DOMAIN x) |-> e_x[k - 1]])
    IN  [num |-> e_x, den |-> summation]

\* variant: the eos score is also suppressed at cur_length = min_length
process_logits_Inclusive(cur_length, scores, eos, min_length) ==
    IF cur_length <= min_length
    THEN [scores EXCEPT ![eos] = NegInf]
    ELSE scores

\* process_logits: scores[:, eos_token_id] = -inf when cur_length < min_length;
\* the array returned is the array passed
process_logits(cur_length, scores, eos, min_length) ==
    IF cur_length < min_length
    THEN [scores EXCEPT ![eos] = NegInf]
    ELSE scores

\* -np.sort(-scores): the scores at the indices idx in descending order
RECURSIVE SortDescending(_, _)
SortDescending(scores, idx) ==
    IF idx = {}
    THEN <<>>
    ELSE LET i == CHOOSE i \in idx : \A j \in idx : scores[j] <= scores[i]
         IN  <<scores[i]>> \o SortDescending(scores, idx \ {i})

\* np.min of a sequence of scores
SeqMin(s) == CHOOSE v \in {s[i] : i \in 1..Len(s)} : \A i \in 1..Len(s) : v <= s[i]

\* the k-th highest score of a row: np.min((-np.sort(-scores))[:, :k])
KthHighest(scores, k) ==
    SeqMin(SubSeq(SortDescending(scores, DOMAIN scores), 1, k))

\* variant: scores equal to the k-th highest are removed as well
get_top_k_logits_Inclusive(scores, k) ==
    LET n == Cardinality(DOMAIN scores)
        kk == IF k < 1 THEN 1 ELSE IF k > n THEN n ELSE k
        threshold == KthHighest(scores, kk)
    IN  [i \in DOMAIN scores |-> IF scores[i] <= threshold THEN NegInf ELSE scores[i]]

\* get_top_k_logits: clamp k to [1, N], replace every score strictly below the
\* k-th highest by filter_value
get_top_k_logits(scores, k) ==
    LET n == Cardinality(DOMAIN scores)
        kk == IF k < 1 THEN 1 ELSE IF k > n THEN n ELSE k
        threshold == KthHighest(scores, kk)
    IN  [i \in DOMAIN scores |-> IF scores[i] < threshold THEN NegInf ELSE scores[i]]

\* np.random.choice(probs.shape[-1], 1, p=probs[0]): the indices that can be drawn
RandomChoice(probs) == {i \in DOMAIN probs.num : probs.num[i] > 0}

\* ----------------------------------------------------- model inference port
\* The rows a model can put at the last real position: every row with at least
\* one finite score (scores are 0 or -inf: top_k = 20 covers the whole
\* vocabulary of the model, so only the support of a row matters to the loop).
LogitRows == {r \in [Vocab -> {NegInf, 0}] : \E i \in Vocab : r[i] # NegInf}

\* 100% weight on token t
StubRow(t) == [i \in Vocab |-> IF i = t THEN 0 ELSE NegInf]

FillRow == [i \in Vocab |-> 0]

FreeModel == [stub |-> FALSE, token |-> eos_token_id]
Models == {FreeModel} \cup {[stub |-> TRUE, token |-> t] : t \in Vocab}

ModelRows(model) == IF model.stub THEN {StubRow(model.token)} ELSE LogitRows

\* compiled_model({"input_ids": ids, "attention_mask": mask})[output_key]: one
\* row per sequence position.  A stub returns its row at every position; a
\* free model returns row r at the last position the mask marks real and a
\* uniform row everywhere else.
infer(model, ids, mask, r) ==
    LET last_real == SumSeq(mask)
    IN  [p \in 1..Len(ids) |->
            IF model.stub \/ p = last_real THEN r ELSE FillRow]

\* ------------------------------------------------------- generate_sequence
\* variant: the model is given the sequence without its newest token
ModelInputIds_Stale(ids, max_len, eos, dyn) ==
    LET stale == SubSeq(ids, 1, Len(ids) - 1)
    IN  IF ~dyn THEN stale \o Repeat(eos, max_len - Len(stale)) ELSE stale

\* model_input_ids: padded with eos_token_id to max_sequence_length unless
\* dynamic_shapes
ModelInputIds(ids, max_len, eos, dyn) ==
    IF ~dyn THEN ids \o Repeat(eos, max_len - Len(ids)) ELSE ids

\* variant: the padding positions are marked real
ModelInputAttentionMask_PadOnes(ids, mask, max_len, dyn) ==
    IF ~dyn THEN mask \o Repeat(1, max_len - Len(ids)) ELSE mask

\* model_input_attention_mask: padded with 0
ModelInputAttentionMask(ids, mask, max_len, dyn) ==
    IF ~dyn THEN mask \o Repeat(0, max_len - Len(ids)) ELSE mask

\* outputs[:, cur_input_len - 1, :] (positions are 1-based here); for
\* cur_input_len = 0 the index is -1, which numpy reads as the last position
NextTokenLogits(outs, cur_input_len) ==
    IF cur_input_len >= 1 THEN outs[cur_input_len] ELSE outs[Len(outs)]

\* outputs[:, cur_input_len - 1, :] raises IndexError when the index is out of
\* bounds for the sequence axis
IndexOutOfBounds(outs, cur_input_len) ==
    IF cur_input_len >= 1 THEN cur_input_len > Len(outs) ELSE Len(outs) = 0

\* the filtered scores of one iteration: process_logits (min_length left at its
\* default 0), then get_top_k_logits with top_k = 20
NextTokenScores(cur_input_len, next_token_logits, eos) ==
    get_top_k_logits(process_logits(cur_input_len, next_token_logits, eos, 0), top_k)

\* variants of the stop test: a cap compared with > in place of ==, no eos
\* test, a cap reached one token early
StopCondition_CapLate(cur_input_len, max_len, tok, eos) ==
    cur_input_len > max_len \/ tok = eos

StopCondition_NoEos(cur_input_len, max_len, tok, eos) ==
    cur_input_len = max_len

StopCondition_CapEarly(cur_input_len, max_len, tok, eos) ==
    cur_input_len + 1 >= max_len \/ tok = eos

\* if cur_input_len == max_sequence_length or next_tokens[0] == eos_token_id: break
StopCondition(cur_input_len, max_len, tok, eos) ==
    cur_input_len = max_len \/ tok = eos

\* variant of the extension: the new token overwrites the first one
ExtendIds_Overwrite(ids, toks) == toks \o Tail(ids) \o toks

\* input_ids = np.concatenate((input_ids, [next_tokens]), axis=-1)
ExtendIds(ids, toks) == ids \o toks

\* variant: the mask is extended with 0, as padding is
ExtendMask_Zero(mask, toks) == mask \o Repeat(0, Len(toks))

\* attention_mask = np.concatenate((attention_mask, [[1] * len(next_tokens)]), axis=-1)
ExtendMask(mask, toks) == mask \o Repeat(1, Len(toks))

\* variant: the sequence built so far is kept as the history
HistoryAfterFailure_Partial(hist, ids) == ids

\* response, self.history = converse(input_text, self.history): when the call
\* raises, the assignment does not happen and self.history keeps its value
HistoryAfterFailure(hist, ids) == hist

\* the tracked length of a conversation's token sequence: MaxHistory tokens,
\* and MaxHistory more tokens when the history has grown to n >= 1000 tokens
HistoryBound(n) == IF n >= ConverseMaxLength THEN n + MaxHistory ELSE MaxHistory

\* the tracked length of input_ids: MaxIds in a direct call, HistoryBound in a
\* conversation
LengthBound ==
    IF max_sequence_length = ConverseMaxLength THEN HistoryBound(Len(history)) ELSE MaxIds

\* one iteration of the while loop of generate_sequence (each intermediate
\* value of the iteration is bound once, in the order the code computes it)
LoopIteration ==
    /\ pc = "RUNNING"
    /\ \E cur_input_len \in {Len(input_ids)} :
       \E mids \in {ModelInputIds(input_ids, max_sequence_length,
                                  eos_token_id, dynamic_shapes)} :
       \E mmask \in {ModelInputAttentionMask(input_ids, attention_mask,
                                             max_sequence_length, dynamic_shapes)} :
       \E r \in ModelRows(compiled_model) :
       \E outs \in {infer(compiled_model, mids, mmask, r)} :
          /\ model_input_ids' = mids
          /\ model_input_attention_mask' = mmask
          /\ outputs' = outs
          /\ model_calls' = model_calls + 1
          /\ \/ /\ IndexOutOfBounds(outs, cur_input_len)
                /\ pc' = "FAILED"
                /\ history' = HistoryAfterFailure(history, input_ids)
                /\ UNCHANGED <<input_ids, attention_mask, next_token_scores,
                               next_tokens, sampled>>
             \/ /\ ~IndexOutOfBounds(outs, cur_input_len)
                /\ \E next_token_logits \in {NextTokenLogits(outs, cur_input_len)} :
                   \E scores \in {NextTokenScores(cur_input_len, next_token_logits,
                                                  eos_token_id)} :
                   \E probs \in {softmax(scores)} :
                   \E tok \in RandomChoice(probs) :
                      /\ next_token_scores' = scores
                      /\ next_tokens' = <<tok>>
                      /\ sampled' = Append(sampled, tok)
                      /\ history' = history
                      /\ IF StopCondition(cur_input_len, max_sequence_length,
                                          tok, eos_token_id)
                         THEN /\ pc' = "DONE"
                              /\ UNCHANGED <<input_ids, attention_mask>>
                         ELSE /\ cur_input_len < LengthBound
                              /\ pc' = "RUNNING"
                              /\ input_ids' = ExtendIds(input_ids, <<tok>>)
                              /\ attention_mask' = ExtendMask(attention_mask, <<tok>>)
    /\ UNCHANGED <<compiled_model, prompt_ids, prompt_mask, max_sequence_length,
                   dynamic_shapes, input_text, messages, response, fn_vars>>

\* an iteration of the call under way
generate_sequence == LoopIteration /\ UNCHANGED padded_run

\* the model call of an iteration raises: compiled_model(...) fails, nothing
\* in generate_sequence, converse or chat catches it, and the exception leaves
\* the call before any later statement runs
model_failure ==
    /\ pc = "RUNNING"
    /\ model_input_ids' = ModelInputIds(input_ids, max_sequence_length,
                                        eos_token_id, dynamic_shapes)
    /\ model_input_attention_mask' = ModelInputAttentionMask(input_ids, attention_mask,
                                        max_sequence_length, dynamic_shapes)
    /\ model_calls' = model_calls + 1
    /\ pc' = "FAILED"
    /\ history' = HistoryAfterFailure(history, input_ids)
    /\ UNCHANGED <<compiled_model, prompt_ids, prompt_mask, input_ids, attention_mask,
                   max_sequence_length, dynamic_shapes, outputs, next_token_scores,
                   next_tokens, sampled, input_text, messages, response, fn_vars,
                   padded_run>>

\* the prompts of a direct call: token sequences of length 0..MaxPromptLen
\* (nothing stops a caller from passing an array of shape (1, 0))
PromptTokens == {t \in Vocab : t <= eos_token_id + 1}
Prompts == SeqsUpTo(PromptTokens, 0, MaxPromptLen)

\* tokenize returns an all-ones attention_mask of the length of input_ids
OnesLike(ids) == Repeat(1, Len(ids))

\* entry of generate_sequence(input_ids, attention_mask, max_sequence_length,
\* eos_token_id, dynamic_shapes)
EnterGenerate(ids, mask, max_len, dyn) ==
    /\ prompt_ids' = ids
    /\ prompt_mask' = mask
    /\ input_ids' = ids
    /\ attention_mask' = mask
    /\ max_sequence_length' = max_len
    /\ dynamic_shapes' = dyn
    /\ model_input_ids' = <<>>
    /\ model_input_attention_mask' = <<>>
    /\ outputs' = <<>>
    /\ next_token_scores' = <<>>
    /\ next_tokens' = <<>>
    /\ sampled' = <<>>
    /\ model_calls' = 0
    /\ pc' = "RUNNING"

\* output_ids = generate_sequence(input_ids, attention_mask, ...) on a tokenized text
generate ==
    /\ pc = "IDLE"
    /\ \E ids \in Prompts, max_len \in 0..MaxSeqLen, dyn \in BOOLEAN :
          EnterGenerate(ids, OnesLike(ids), max_len, dyn)
    /\ UNCHANGED <<compiled_model, input_text, history, messages, response, fn_vars,
                   padded_run>>

\* ------------------------------------------------------------- tokenizer
\* Character c (1 <= c < VocabSize) is the text of token c; the end-of-sequence
\* token is a special token whose text is a string of two ordinary characters.
Chars == 1..(VocabSize - 1)

\* eos_token = tokenizer.decode(eos_token_id)
eos_token == <<1, 2>>

\* the first position at which sep occurs in text, 0 when it does not
FirstOcc(text, sep) ==
    LET hits == {i \in 1..(Len(text) - Len(sep) + 1) :
                    SubSeq(text, i, i + Len(sep) - 1) = sep}
    IN  IF hits = {} THEN 0 ELSE CHOOSE i \in hits : \A j \in hits : i <= j

\* str.split(sep): the segments between the occurrences of sep, left to right
RECURSIVE Split(_, _)
Split(text, sep) ==
    LET i == FirstOcc(text, sep)
    IN  IF i = 0
        THEN <<text>>
        ELSE <<SubSeq(text, 1, i - 1)>>
                 \o Split(SubSeq(text, i + Len(sep), Len(text)), sep)

\* the ids of a text without special tokens: one token per character
RECURSIVE CharTokens(_)
CharTokens(text) ==
    IF text = <<>> THEN <<>> ELSE <<Head(text)>> \o CharTokens(Tail(text))

\* tokenize(text): input_ids of the text; every occurrence of the eos string
\* becomes eos_token_id (special tokens are split off first)
RECURSIVE TokenizeSegments(_)
TokenizeSegments(segs) ==
    IF Len(segs) = 1
    THEN CharTokens(Head(segs))
    ELSE CharTokens(Head(segs)) \o <<eos_token_id>> \o TokenizeSegments(Tail(segs))

tokenize(text) == TokenizeSegments(Split(text, eos_token))

\* tokenizer.batch_decode(ids): one string per token
TokenText(t) == IF t = eos_token_id THEN eos_token ELSE <<t>>

\* ''.join(tokenizer.batch_decode(ids))
RECURSIVE JoinDecode(_)
JoinDecode(ids) ==
    IF ids = <<>> THEN <<>> ELSE TokenText(Head(ids)) \o JoinDecode(Tail(ids))

\* ----------------------------------------------------------------- converse
UserTexts == SeqsUpTo(Chars, 0, MaxTextLen)

\* new_user_input_ids, _ = tokenize(input + eos_token)
NewUserInputIds(text) == tokenize(text \o eos_token)

\* variant: the new user input placed before the history
BotInputIds_Swapped(hist, new_user_input_ids) ==
    IF Len(hist) = 0 THEN new_user_input_ids ELSE new_user_input_ids \o hist

\* bot_input_ids: the new user input alone when the history is empty, else the
\* history followed by the new user input
BotInputIds(hist, new_user_input_ids) ==
    IF Len(hist) = 0 THEN new_user_input_ids ELSE hist \o new_user_input_ids

\* variant: the mask of the new user input only
BotAttentionMask_Short(bot_input_ids) == Repeat(1, Len(bot_input_ids) - 1)

\* bot_attention_mask = np.ones_like(bot_input_ids)
BotAttentionMask(bot_input_ids) == Repeat(1, Len(bot_input_ids))

\* variant: eos appended only when the sequence does not end with eos already
CloseTurn_IfMissing(ids, eos) == IF Last(ids) = eos THEN ids ELSE Append(ids, eos)

\* history = np.append(history[0], eos_token_id)
CloseTurn(ids, eos) == Append(ids, eos)

\* variant: the last segment, [-1], in place of [-2]
ExtractResponse_Last(hist) ==
    LET segs == Split(JoinDecode(hist), eos_token)
    IN  segs[Len(segs)]

\* ''.join(tokenizer.batch_decode(history)).split(eos_token)[-2]
ExtractResponse(hist) ==
    LET segs == Split(JoinDecode(hist), eos_token)
    IN  segs[Len(segs) - 1]

\* variant: the response line recorded before the user line
RecordMessages_ResponseFirst(msgs, text, resp) ==
    msgs \o <<[speaker |-> "PersonaGPT", text |-> resp],
              [speaker |-> "Person", text |-> text]>>

\* self.messages.append(f"Person: {input_text}");
\* self.messages.append(f"PersonaGPT: {response}")
RecordMessages(msgs, text, resp) ==
    msgs \o <<[speaker |-> "Person", text |-> text],
              [speaker |-> "PersonaGPT", text |-> resp]>>

\* converse, up to its call of generate_sequence(bot_input_ids,
\* bot_attention_mask, max_sequence_length=1000), made by Conversation.chat
converse ==
    /\ pc \in {"IDLE", "FAILED"}
    /\ Len(messages) < 2 * MaxTurns
    /\ \E text \in UserTexts :
          LET bot_input_ids == BotInputIds(history, NewUserInputIds(text))
          IN  /\ Len(bot_input_ids) <= HistoryBound(Len(history))
              /\ input_text' = text
              /\ EnterGenerate(bot_input_ids, BotAttentionMask(bot_input_ids),
                               ConverseMaxLength, TRUE)
    /\ UNCHANGED <<compiled_model, history, messages, response, fn_vars, padded_run>>

\* the rest of converse after generate_sequence returned, and the rest of
\* Conversation.chat: the history is closed with eos and stored, the response
\* is extracted, and both lines are recorded
chat ==
    /\ pc = "DONE"
    /\ max_sequence_length = ConverseMaxLength
    /\ LET new_history == CloseTurn(input_ids, eos_token_id)
           new_response == ExtractResponse(new_history)
       IN  /\ history' = new_history
           /\ response' = new_response
           /\ messages' = RecordMessages(messages, input_text, new_response)
    /\ pc' = "IDLE"
    /\ UNCHANGED <<compiled_model, prompt_ids, prompt_mask, max_sequence_length,
                   dynamic_shapes, input_text, gen_vars, fn_vars, padded_run>>

\* --------------------------------------------- the two input modes abreast
\* no second call under way
NoRun == [pc |-> "IDLE", input_ids |-> <<>>, attention_mask |-> <<>>, model_calls |-> 0]

\* the states one iteration of the while loop leads to in a call made with
\* dynamic_shapes=False that stands at run, when the model puts row r at the
\* last real position and the random source makes the draw that gave tok on
\* the distribution probs: the same token when this iteration draws from that
\* distribution, any token its own distribution allows otherwise
PaddedIteration(run, max_len, model, r, tok, probs) ==
    LET cur_input_len == Len(run.input_ids)
        mids == ModelInputIds(run.input_ids, max_len, eos_token_id, FALSE)
        mmask == ModelInputAttentionMask(run.input_ids, run.attention_mask, max_len, FALSE)
        outs == infer(model, mids, mmask, r)
        called == [run EXCEPT !.model_calls = @ + 1]
    IN  IF IndexOutOfBounds(outs, cur_input_len)
        THEN {[called EXCEPT !.pc = "FAILED"]}
        ELSE LET scores == NextTokenScores(cur_input_len,
                                           NextTokenLogits(outs, cur_input_len),
                                           eos_token_id)
                 own == softmax(scores)
                 draws == IF own = probs THEN {tok} ELSE RandomChoice(own)
             IN  {IF StopCondition(cur_input_len, max_len, t, eos_token_id)
                  THEN [called EXCEPT !.pc = "DONE"]
                  ELSE [called EXCEPT !.input_ids = ExtendIds(@, <<t>>),
                                      !.attention_mask = ExtendMask(@, <<t>>)] :
                  t \in {d \in draws :
                            \/ StopCondition(cur_input_len, max_len, d, eos_token_id)
                            \/ cur_input_len < LengthBound}}

\* generate_sequence called twice on one prompt with one max_sequence_length,
\* with dynamic_shapes=True and with dynamic_shapes=False
generate_both ==
    /\ pc = "IDLE"
    /\ \E ids \in Prompts, max_len \in 0..MaxSeqLen :
          /\ EnterGenerate(ids, OnesLike(ids), max_len, TRUE)
          /\ padded_run' = [pc |-> "RUNNING", input_ids |-> ids,
                            attention_mask |-> OnesLike(ids), model_calls |-> 0]
    /\ UNCHANGED <<compiled_model, input_text, history, messages, response, fn_vars>>

\* both calls make their next iteration; the model's row at the last real
\* position and the draw of the random source are the same for both
lockstep ==
    /\ padded_run.pc = "RUNNING"
    /\ LoopIteration
    /\ \E r \in IF Len(outputs') >= Len(input_ids) /\ Len(input_ids) >= 1
                 THEN {outputs'[Len(input_ids)]}
                 ELSE ModelRows(compiled_model) :
          padded_run' \in
              IF pc' = "FAILED"
              THEN PaddedIteration(padded_run, max_sequence_length, compiled_model,
                                   r, eos_token_id, <<>>)
              ELSE PaddedIteration(padded_run, max_sequence_length, compiled_model,
                                   r, next_tokens'[1], softmax(next_token_scores'))

\* the padded call goes on after the other call has ended
padded_alone ==
    /\ pc # "RUNNING"
    /\ padded_run.pc = "RUNNING"
    /\ \E r \in ModelRows(compiled_model) :
          padded_run' \in PaddedIteration(padded_run, max_sequence_length, compiled_model,
                                          r, eos_token_id, <<>>)
    /\ UNCHANGED <<pc, compiled_model, prompt_ids, prompt_mask, max_sequence_length,
                   dynamic_shapes, gen_vars, chat_vars, fn_vars>>

\* ------------------------------------ the numeric transforms on their own
\* the score rows a caller can pass: N = 1..VocabSize scores, each -inf or
\* one of 0..MaxScore
ScoreRows == UNION {[0..(n - 1) -> {NegInf} \cup 0..MaxScore] : n \in 1..VocabSize}

\* the top_k values a caller can pass: below 1, within 1..N and beyond N
TopKs == (0 - 1)..(VocabSize + 1)

\* the lengths a caller can pass as cur_length and min_length
Lengths == 0..MaxPromptLen

NoArgs == [top_k |-> 0, cur_length |-> 0, eos_token_id |-> 0, min_length |-> 0]

\* filtred_scores = get_top_k_logits(scores, top_k): a new array is returned,
\* the array passed keeps its values
call_get_top_k_logits ==
    /\ fn = "none"
    /\ \E k \in TopKs :
          /\ fn_args' = [NoArgs EXCEPT !.top_k = k]
          /\ fn_result' = get_top_k_logits(fn_scores, k)
    /\ fn' = "get_top_k_logits"
    /\ UNCHANGED <<fn_scores_in, fn_scores, pc, compiled_model, prompt_ids, prompt_mask,
                   max_sequence_length, dynamic_shapes, gen_vars, chat_vars, padded_run>>

\* processed = process_logits(cur_length, scores, eos_token_id, min_length):
\* the assignment scores[:, eos_token_id] = -inf writes into the array passed,
\* and that same array is returned
call_process_logits ==
    /\ fn = "none"
    /\ \E cur_length \in Lengths, min_length \in Lengths, eos \in DOMAIN fn_scores :
          /\ fn_args' = [NoArgs EXCEPT !.cur_length = cur_length,
                                       !.eos_token_id = eos,
                                       !.min_length = min_length]
          /\ fn_result' = process_logits(cur_length, fn_scores, eos, min_length)
          /\ fn_scores' = process_logits(cur_length, fn_scores, eos, min_length)
    /\ fn' = "process_logits"
    /\ UNCHANGED <<fn_scores_in, pc, compiled_model, prompt_ids, prompt_mask,
                   max_sequence_length, dynamic_shapes, gen_vars, chat_vars, padded_run>>

Init ==
    /\ pc = "IDLE"
    /\ compiled_model \in Models
    /\ prompt_ids = <<>>
    /\ prompt_mask = <<>>
    /\ input_ids = <<>>
    /\ attention_mask = <<>>
    /\ max_sequence_length = 0
    /\ dynamic_shapes = TRUE
    /\ model_input_ids = <<>>
    /\ model_input_attention_mask = <<>>
    /\ outputs = <<>>
    /\ next_token_scores = <<>>
    /\ next_tokens = <<>>
    /\ sampled = <<>>
    /\ model_calls = 0
    /\ input_text = <<>>
    /\ history = <<>>
    /\ messages = <<>>
    /\ response = <<>>
    /\ fn = "none"
    /\ fn_scores_in = <<>>
    /\ fn_scores = <<>>
    /\ fn_args = NoArgs
    /\ fn_result = <<>>
    /\ padded_run = NoRun

Next == generate \/ generate_sequence \/ model_failure

Spec == Init /\ [][Next]_vars

\* the loop is sequential and nothing blocks it: an iteration that can run does run
FairSpec == Init /\ [][Next]_vars /\ WF_vars(generate_sequence)

NextChat == converse \/ generate_sequence \/ model_failure \/ chat

\* a Conversation: chat calls one after another
ChatSpec == Init /\ [][NextChat]_vars

\* the transforms called on their own, each once on a row the caller chose
NumInit ==
    /\ pc = "IDLE"
    /\ compiled_model = FreeModel
    /\ prompt_ids = <<>>
    /\ prompt_mask = <<>>
    /\ input_ids = <<>>
    /\ attention_mask = <<>>
    /\ max_sequence_length = 0
    /\ dynamic_shapes = TRUE
    /\ model_input_ids = <<>>
    /\ model_input_attention_mask = <<>>
    /\ outputs = <<>>
    /\ next_token_scores = <<>>
    /\ next_tokens = <<>>
    /\ sampled = <<>>
    /\ model_calls = 0
    /\ input_text = <<>>
    /\ history = <<>>
    /\ messages = <<>>
    /\ response = <<>>
    /\ fn = "none"
    /\ fn_scores_in \in ScoreRows
    /\ fn_scores = fn_scores_in
    /\ fn_args = NoArgs
    /\ fn_result = <<>>
    /\ padded_run = NoRun

\* input_ids at the end of the loop of a first call chat("") in which eos was
\* never sampled: the eos closing the empty user text, then token 2 until the
\* cap of 1000 stopped the loop
CapTurnIds == <<eos_token_id>> \o Repeat(2, ConverseMaxLength - 1)

\* a Conversation after that first call
CapInit ==
    /\ pc = "IDLE"
    /\ compiled_model \in {FreeModel, [stub |-> TRUE, token |-> 2]}
    /\ prompt_ids = <<eos_token_id>>
    /\ prompt_mask = <<1>>
    /\ input_ids = CapTurnIds
    /\ attention_mask = OnesLike(CapTurnIds)
    /\ max_sequence_length = ConverseMaxLength
    /\ dynamic_shapes = TRUE
    /\ model_input_ids = CapTurnIds
    /\ model_input_attention_mask = OnesLike(CapTurnIds)
    /\ outputs = infer(compiled_model, CapTurnIds, OnesLike(CapTurnIds), StubRow(2))
    /\ next_token_scores = StubRow(2)
    /\ next_tokens = <<2>>
    /\ sampled = Repeat(2, ConverseMaxLength)
    /\ model_calls = ConverseMaxLength
    /\ input_text = <<>>
    /\ history = CloseTurn(CapTurnIds, eos_token_id)
    /\ messages = RecordMessages(<<>>, <<>>, Repeat(2, ConverseMaxLength - 1))
    /\ response = Repeat(2, ConverseMaxLength - 1)
    /\ fn = "none"
    /\ fn_scores_in = <<>>
    /\ fn_scores = <<>>
    /\ fn_args = NoArgs
    /\ fn_result = <<>>
    /\ padded_run = NoRun

CapNext == converse \/ generate_sequence \/ model_failure

\* the next chat call of that Conversation, up to the end of its loop
CapSpec == CapInit /\ [][CapNext]_vars

ModeNext == generate_both \/ lockstep \/ padded_alone

\* the same prompt run in both input modes
ModeSpec == Init /\ [][ModeNext]_vars

NumNext == call_get_top_k_logits \/ call_process_logits

NumSpec == NumInit /\ [][NumNext]_vars

\* ------------------------------------------------------------------ claims
InCall == pc \in {"RUNNING", "DONE"}

\* the tokens generate_sequence has appended to the prompt
Generated == SubSeq(input_ids, Len(prompt_ids) + 1, Len(input_ids))

EosStub == [stub |-> TRUE, token |-> eos_token_id]

\* C1: for a prompt of length 1..max_sequence_length, in both input modes and
\* whatever is sampled, input_ids never grows beyond max_sequence_length, at
\* any iteration and at return.
C1_LengthCap ==
    (InCall /\ 1 <= Len(prompt_ids) /\ Len(prompt_ids) <= max_sequence_length)
        => Len(input_ids) <= max_sequence_length

\* a padded-mode call that stopped at the cap and dropped a non-eos sample
C1_Witness ==
    /\ pc = "DONE"
    /\ ~dynamic_shapes
    /\ Len(prompt_ids) < max_sequence_length
    /\ Len(input_ids) = max_sequence_length
    /\ next_tokens # <<eos_token_id>>

\* C2: an iteration that samples eos_token_id ends the loop and leaves the
\* sequence as it stood before the sample; no appended token is eos_token_id;
\* with a model that puts all weight on eos the call returns its prompt.
C2_StopOnEos ==
    [][/\ (pc = "RUNNING" /\ sampled' = Append(sampled, eos_token_id))
            => (pc' = "DONE" /\ input_ids' = input_ids /\ attention_mask' = attention_mask)
       /\ pc = "RUNNING"
            => \A i \in (Len(input_ids) + 1)..Len(input_ids') :
                   input_ids'[i] # eos_token_id
       /\ (pc' = "DONE" /\ compiled_model' = EosStub)
            => input_ids' = prompt_ids']_vars

\* generate(ids=[1]) with the all-eos stub and the largest cap returned [1]
C2_Witness ==
    /\ pc = "DONE"
    /\ compiled_model = EosStub
    /\ prompt_ids = <<1>>
    /\ max_sequence_length = MaxSeqLen
    /\ sampled = <<eos_token_id>>
    /\ input_ids = <<1>>

\* C3: when eos is never sampled and the prompt has length L <=
\* max_sequence_length, the call returns exactly max_sequence_length tokens:
\* the prompt followed by the first max_sequence_length - L samples, in order.
C3_FillsToCap ==
    (/\ pc = "DONE"
     /\ Len(prompt_ids) <= max_sequence_length
     /\ \A i \in 1..Len(sampled) : sampled[i] # eos_token_id)
        => /\ Len(input_ids) = max_sequence_length
           /\ Len(sampled) = max_sequence_length - Len(prompt_ids) + 1
           /\ input_ids = prompt_ids
                  \o SubSeq(sampled, 1, max_sequence_length - Len(prompt_ids))

\* prompt [1], cap 4, a stub always favouring token 2: [1, 2, 2, 2]
C3_Witness ==
    /\ pc = "DONE"
    /\ compiled_model = [stub |-> TRUE, token |-> 2]
    /\ prompt_ids = <<1>>
    /\ max_sequence_length = 4
    /\ input_ids = <<1, 2, 2, 2>>
    /\ sampled = <<2, 2, 2, 2>>

\* C4: with max_sequence_length equal to the prompt length the loop stops in
\* its first iteration and returns the prompt unchanged, whatever was sampled.
C4_CapAtPromptLength ==
    (InCall /\ max_sequence_length = Len(prompt_ids))
        => /\ input_ids = prompt_ids
           /\ attention_mask = prompt_mask
           /\ pc = "RUNNING" => sampled = <<>>
           /\ pc = "DONE" => Len(sampled) = 1

\* such a call returned although its only sample was not eos
C4_Witness ==
    /\ pc = "DONE"
    /\ max_sequence_length = Len(prompt_ids)
    /\ Len(sampled) = 1
    /\ next_tokens # <<eos_token_id>>
    /\ input_ids = prompt_ids

\* C5: every call of generate_sequence, whatever the prompt length (also one
\* longer than max_sequence_length) and whatever is sampled, leaves RUNNING and
\* reaches DONE.  Stated as the loop's termination argument, which a finite
\* run refutes: an iteration either ends the loop or brings input_ids one
\* token closer to max_sequence_length without passing it.  An iteration that
\* leaves the loop RUNNING beyond max_sequence_length can be repeated for
\* ever: the cap test is an equality that is never true again, and nothing
\* makes the sampler draw eos.
C5_Terminates ==
    [][pc = "RUNNING"
         => \/ pc' = "DONE"
            \/ /\ max_sequence_length - Len(input_ids') >= 0
               /\ max_sequence_length - Len(input_ids')
                      < max_sequence_length - Len(input_ids)]_vars

\* the same as a liveness property, for the runs the model follows to their end
EventuallyDone == (pc = "RUNNING") ~> (pc = "DONE")

\* what holds of termination: a call whose prompt is not longer than
\* max_sequence_length reaches DONE
TerminatesWithinCap ==
    (pc = "RUNNING" /\ Len(prompt_ids) <= max_sequence_length)
        ~> (pc \in {"DONE", "FAILED"})

\* C6: in a call the prompt stays a prefix of input_ids, and an iteration
\* changes input_ids only by appending one token at its end.
C6_PrefixPreserved ==
    [][/\ InCall' => IsPrefix(prompt_ids', input_ids')
       /\ pc = "RUNNING"
            => \/ input_ids' = input_ids
               \/ /\ Len(input_ids') = Len(input_ids) + 1
                  /\ SubSeq(input_ids', 1, Len(input_ids)) = input_ids]_vars

\* a call that appended two tokens to a two-token prompt
C6_Witness ==
    /\ pc = "DONE"
    /\ Len(prompt_ids) = 2
    /\ Len(input_ids) = 4
    /\ prompt_ids[1] # prompt_ids[2]

\* a chat call has completed and no other is under way
TurnCompleted == pc = "IDLE" /\ Len(messages) > 0

\* the step that completes a turn
CompletesTurn == pc = "DONE" /\ pc' = "IDLE"

\* text contains the eos string
HasEosString(text) == FirstOcc(text, eos_token) # 0

\* C7 as stated: after every completed turn the history ends with exactly one
\* eos: its last token is eos and the token before it is not, also when the
\* loop generated nothing.
C7_SingleTrailingEos ==
    TurnCompleted
        => /\ Last(history) = eos_token_id
           /\ history[Len(history) - 1] # eos_token_id

\* C7 as amended: after every completed turn the last token of the history is
\* eos; the token before it is not eos when the loop generated at least one
\* token in the turn, and it is the eos closing the user input when the loop
\* generated none.
C7_ClosingEos ==
    TurnCompleted
        => /\ Len(history) = Len(input_ids) + 1
           /\ Len(history) >= 2
           /\ Last(history) = eos_token_id
           /\ Len(Generated) > 0 => history[Len(history) - 1] # eos_token_id
           /\ Len(Generated) = 0 => history[Len(history) - 1] = eos_token_id

\* a second turn completed with a response of at least one token
C7_Witness ==
    /\ TurnCompleted
    /\ Len(messages) = 4
    /\ Len(Generated) > 0
    /\ history[Len(history) - 1] # eos_token_id

\* C8: the history a turn returns is the input history, then the tokens of the
\* user text with its eos delimiter, then the tokens generated in the turn,
\* then one eos; so it is strictly longer and keeps the old history as prefix.
C8_HistoryGrows ==
    [][CompletesTurn
         => /\ history' = history \o tokenize(input_text \o eos_token)
                               \o Generated \o <<eos_token_id>>
            /\ IsPrefix(history, history')
            /\ Len(history') > Len(history)]_vars

\* a second turn extended a non-empty history by user text and a response
C8_Witness ==
    /\ TurnCompleted
    /\ Len(messages) = 4
    /\ input_text # <<>>
    /\ Len(Generated) > 0
    /\ Len(history) > Len(prompt_ids) + 1

\* C9: when neither the user text nor the generated text contains the eos
\* string, the response of a turn is the decoding of exactly the tokens the
\* loop appended in that turn, and is empty when it appended none.
C9_ResponseIsGenerated ==
    (/\ TurnCompleted
     /\ ~HasEosString(input_text)
     /\ ~HasEosString(JoinDecode(Generated)))
        => /\ response = JoinDecode(Generated)
           /\ Last(messages).text = response
           /\ Len(Generated) = 0 => response = <<>>

\* a second turn whose response is not empty and is neither the user text nor
\* the first turn's response
C9_Witness ==
    /\ TurnCompleted
    /\ Len(messages) = 4
    /\ ~HasEosString(input_text)
    /\ ~HasEosString(JoinDecode(Generated))
    /\ response # <<>>
    /\ response # input_text
    /\ response # messages[2].text
    /\ messages[2].text # <<>>

\* C10: the sequence a turn hands to the loop is the tokenized user text (with
\* its eos delimiter) when the history is empty and the history followed by it
\* otherwise; the mask is all ones and as long; the loop runs with
\* max_sequence_length 1000 in dynamic mode, so the first model call gets
\* exactly that sequence and mask.
C10_TurnInput ==
    InCall
        => /\ history = <<>> => prompt_ids = tokenize(input_text \o eos_token)
           /\ history # <<>>
                => prompt_ids = history \o tokenize(input_text \o eos_token)
           /\ Len(prompt_mask) = Len(prompt_ids)
           /\ \A i \in 1..Len(prompt_mask) : prompt_mask[i] = 1
           /\ dynamic_shapes
           /\ max_sequence_length = 1000
           /\ Len(sampled) = 1
                => /\ model_input_ids = prompt_ids
                   /\ model_input_attention_mask = prompt_mask

\* the first model call of a turn made on a non-empty history
C10_Witness ==
    /\ InCall
    /\ history # <<>>
    /\ input_text # <<>>
    /\ Len(sampled) = 1
    /\ model_input_ids = history \o tokenize(input_text \o eos_token)

\* C11: a chat call that succeeds stores the history of its turn as the
\* Conversation's history, appends exactly two lines to messages, the user's
\* text first and the response second, and returns the response it recorded;
\* no other step touches messages, so after n calls messages has 2n lines,
\* alternating Person / PersonaGPT in call order.
C11_ChatRecordsTurn ==
    [][/\ CompletesTurn
            => /\ history' = Append(input_ids, eos_token_id)
               /\ Len(messages') = Len(messages) + 2
               /\ SubSeq(messages', 1, Len(messages)) = messages
               /\ messages'[Len(messages) + 1]
                      = [speaker |-> "Person", text |-> input_text]
               /\ messages'[Len(messages) + 2]
                      = [speaker |-> "PersonaGPT", text |-> response']
       /\ ~CompletesTurn => messages' = messages
       /\ \A i \in 1..Len(messages') :
              messages'[i].speaker = IF i % 2 = 1 THEN "Person" ELSE "PersonaGPT"]_vars

\* two calls recorded four lines, with different user texts and responses
C11_Witness ==
    /\ TurnCompleted
    /\ Len(messages) = 4
    /\ messages[1].text # messages[3].text
    /\ messages[2].text # messages[4].text
    /\ messages[4].text = response
    /\ messages[3].text = input_text

\* the step in which an exception leaves the running call
CallFails == pc = "RUNNING" /\ pc' = "FAILED"

\* C12: a failure of the model call in a chat turn is fatal and is not
\* retried: the failing invocation is the last one of that call (the next step,
\* if any, is the start of a new call), and the caller's state is what it was
\* before the call: Conversation.history, Conversation.messages and the last
\* response are unchanged, and the prompt handed to the loop is unmodified.
C12_FailureIsFatal ==
    [][/\ CallFails
            => /\ history' = history
               /\ messages' = messages
               /\ response' = response
               /\ prompt_ids' = prompt_ids
               /\ prompt_mask' = prompt_mask
               /\ model_calls' = Len(sampled) + 1
       /\ pc = "RUNNING" => history' = history
       /\ pc = "FAILED"
            => /\ pc' = "RUNNING"
               /\ model_calls' = 0
               /\ history' = history
               /\ messages' = messages]_vars

\* the second turn failed in its second model call, after a token had been
\* appended, and the history is still that of the first turn
C12_Witness ==
    /\ pc = "FAILED"
    /\ Len(messages) = 2
    /\ model_calls = 2
    /\ Len(input_ids) = Len(prompt_ids) + 1
    /\ history # <<>>
    /\ Len(history) < Len(prompt_ids)

\* C13: generate_sequence rejects a configuration that is not valid
\* (max_sequence_length < 1) before its first model call: in such a call,
\* also on a prompt that is itself valid, the model is never invoked, nothing
\* is sampled and no token is appended.
C13_RejectsInvalidConfig ==
    (pc # "IDLE" /\ max_sequence_length < 1 /\ Len(prompt_ids) >= 1)
        => /\ model_calls = 0
           /\ sampled = <<>>
           /\ input_ids = prompt_ids

\* C14: generate_sequence rejects a prompt of zero tokens at once: in such a
\* call, also with a valid max_sequence_length, the model is never invoked and
\* no logits row is indexed or sampled.
C14_RejectsEmptyInput ==
    (pc # "IDLE" /\ prompt_ids = <<>> /\ max_sequence_length >= 1)
        => /\ model_calls = 0
           /\ sampled = <<>>
           /\ input_ids = prompt_ids

\* the minimum lengths a caller may want honoured
MinLengths == 0..MaxSeqLen

\* the call ended because its last sample was eos, not because of the cap
StoppedByEos ==
    /\ pc = "DONE"
    /\ next_tokens = <<eos_token_id>>
    /\ Len(input_ids) # max_sequence_length

\* C15: the loop honours min_length: whatever minimum length is asked for, eos
\* is suppressed while input_ids is shorter, so no call (here: one with a
\* prompt of 1..max_sequence_length tokens) stops on a sampled eos with
\* input_ids shorter than that minimum.
C15_MinLengthHonoured ==
    \A min_length \in MinLengths :
        (/\ StoppedByEos
         /\ 1 <= Len(prompt_ids)
         /\ Len(prompt_ids) <= max_sequence_length)
            => Len(input_ids) >= min_length

\* the number of scores of a row that are strictly greater than its score at i
Greater(row, i) == Cardinality({j \in DOMAIN row : row[j] > row[i]})

\* k clamped to 1..n
Clamp(k, n) == IF k < 1 THEN 1 ELSE IF k > n THEN n ELSE k

\* C16: for every row of N scores and every integer k, get_top_k_logits
\* works with k clamped to 1..N: a score with at least k scores strictly above
\* it (one strictly below the k-th highest) becomes -inf, every other score,
\* ties with the k-th highest included, keeps its value, so at least
\* min(k, N) scores survive; with k >= N the row is returned unchanged; with
\* k = 1 exactly the maxima are kept.
C16_TopKFilter ==
    fn = "get_top_k_logits"
        => LET row == fn_scores_in
               out == fn_result
               n == Cardinality(DOMAIN row)
               k == fn_args.top_k
               kk == Clamp(k, n)
               m == RowMax(row)
           IN  /\ DOMAIN out = DOMAIN row
               /\ \A i \in DOMAIN row :
                      /\ Greater(row, i) >= kk => out[i] = NegInf
                      /\ Greater(row, i) < kk => out[i] = row[i]
               /\ Cardinality({i \in DOMAIN row : out[i] = row[i]}) >= kk
               /\ k >= n => out = row
               /\ kk = 1 => \A i \in DOMAIN row :
                                /\ row[i] = m => out[i] = m
                                /\ row[i] # m => out[i] = NegInf

\* k = 1 on a row of three scores with two equal maxima and a lower finite
\* score: both maxima survive, the third score is removed
C16_Witness ==
    /\ fn = "get_top_k_logits"
    /\ fn_args.top_k = 1
    /\ Cardinality(DOMAIN fn_scores_in) = 3
    /\ fn_scores_in[0] = fn_scores_in[1]
    /\ fn_scores_in[2] < fn_scores_in[0]
    /\ fn_scores_in[2] # NegInf
    /\ fn_result[0] = fn_scores_in[0]
    /\ fn_result[1] = fn_scores_in[1]
    /\ fn_result[2] = NegInf

\* C17: process_logits returns a row that has -inf at eos_token_id and the
\* passed scores everywhere else when cur_length < min_length, and the passed
\* scores at every index otherwise.
C17_ProcessLogits ==
    fn = "process_logits"
        => LET row == fn_scores_in
               out == fn_result
               eos == fn_args.eos_token_id
           IN  /\ DOMAIN out = DOMAIN row
               /\ fn_args.cur_length < fn_args.min_length
                    => /\ out[eos] = NegInf
                       /\ \A i \in DOMAIN row \ {eos} : out[i] = row[i]
               /\ fn_args.cur_length >= fn_args.min_length
                    => out = row

\* a finite eos score was suppressed one token below min_length
C17_Witness ==
    /\ fn = "process_logits"
    /\ fn_args.cur_length + 1 = fn_args.min_length
    /\ fn_args.eos_token_id = 1
    /\ Cardinality(DOMAIN fn_scores_in) = 3
    /\ fn_scores_in[1] = MaxScore
    /\ fn_result[1] = NegInf
    /\ fn_result[0] = fn_scores_in[0]
    /\ fn_scores_in[0] # NegInf

\* the loop replayed on a prompt and a list of draws: what it has built after
\* consuming the draws, and whether the last draw ended it
RECURSIVE Replay(_, _, _)
Replay(ids, max_len, draws) ==
    IF draws = <<>>
    THEN [ids |-> ids, done |-> FALSE]
    ELSE IF Len(ids) = max_len \/ Head(draws) = eos_token_id
         THEN [ids |-> ids, done |-> Tail(draws) = <<>>]
         ELSE Replay(Append(ids, Head(draws)), max_len, Tail(draws))

\* C18: a call is determined by its prompt, its mask, max_sequence_length and
\* the tokens drawn from the distributions the model's responses give:
\* input_ids, attention_mask and whether the call has returned are functions
\* of these alone, in both input modes and with every model, so two calls
\* that agree on them return the same output.
C18_Deterministic ==
    InCall
        => LET run == Replay(prompt_ids, max_sequence_length, sampled)
           IN  /\ input_ids = run.ids
               /\ attention_mask
                      = prompt_mask \o Repeat(1, Len(run.ids) - Len(prompt_ids))
               /\ (pc = "DONE") = run.done

\* a call drew 2, 1 and eos on prompt [1] and returned [1, 2, 1]
C18_Witness ==
    /\ pc = "DONE"
    /\ prompt_ids = <<1>>
    /\ max_sequence_length = MaxSeqLen
    /\ sampled = <<2, 1, eos_token_id>>
    /\ input_ids = <<1, 2, 1>>

\* C20: when the prompt's mask is as long as the prompt, attention_mask is as
\* long as input_ids at every iteration and at return, the prompt's mask is
\* its prefix, and every entry appended to it is 1.
C20_MaskAligned ==
    (InCall /\ Len(prompt_mask) = Len(prompt_ids))
        => /\ Len(attention_mask) = Len(input_ids)
           /\ IsPrefix(prompt_mask, attention_mask)
           /\ \A i \in (Len(prompt_mask) + 1)..Len(attention_mask) :
                  attention_mask[i] = 1

\* a padded-mode call that appended two tokens and the two mask entries
C20_Witness ==
    /\ pc = "RUNNING"
    /\ ~dynamic_shapes
    /\ Len(prompt_ids) = 1
    /\ Len(input_ids) = 3
    /\ attention_mask = <<1, 1, 1>>
    /\ model_calls = 2

\* the step in which the running call invokes the model
CallsModel == pc = "RUNNING" /\ model_calls' = model_calls + 1

\* the number of padding positions a mask marks
PadCount(mask) == Len(mask) - SumSeq(mask)

\* C21: with dynamic_shapes = False and a prompt not longer than
\* max_sequence_length, every model call gets input_ids and attention_mask of
\* exactly max_sequence_length entries: the cur_input_len tokens of input_ids
\* with mask 1, then eos_token_id with mask 0; from one call to the next the
\* padding shrinks by exactly one, and dynamic_shapes does not change.
C21_PaddedShape ==
    [][(/\ CallsModel
        /\ ~dynamic_shapes
        /\ Len(prompt_ids) <= max_sequence_length)
          => /\ Len(model_input_ids') = max_sequence_length
             /\ Len(model_input_attention_mask') = max_sequence_length
             /\ \A i \in 1..max_sequence_length :
                    IF i <= Len(input_ids)
                    THEN /\ model_input_ids'[i] = input_ids[i]
                         /\ model_input_attention_mask'[i] = 1
                    ELSE /\ model_input_ids'[i] = eos_token_id
                         /\ model_input_attention_mask'[i] = 0
             /\ model_calls >= 1
                  => PadCount(model_input_attention_mask')
                         = PadCount(model_input_attention_mask) - 1
             /\ dynamic_shapes' = dynamic_shapes]_vars

\* the second model call of a padded call on prompt [1] with cap 4: two real
\* tokens, two padding positions
C21_Witness ==
    /\ ~dynamic_shapes
    /\ prompt_ids = <<1>>
    /\ max_sequence_length = 4
    /\ model_calls = 2
    /\ model_input_ids = <<1, 2, eos_token_id, eos_token_id>>
    /\ model_input_attention_mask = <<1, 1, 0, 0>>

\* the length of input_ids in the iteration that made the last model call
CurLengthAtCall == Len(prompt_ids) + Len(sampled) - 1

\* the last iteration read the row of the last real token, filtered it to its
\* top_k scores and drew a token whose score survived
SampledFromLastRealRow ==
    LET cur == CurLengthAtCall
        tok == Last(sampled)
    IN  /\ cur >= 1
        /\ cur <= Len(outputs)
        /\ model_input_attention_mask[cur] = 1
        /\ \A p \in (cur + 1)..Len(outputs) : model_input_attention_mask[p] = 0
        /\ \A t \in Vocab :
               next_token_scores[t]
                   = IF Greater(outputs[cur], t) < Clamp(top_k, VocabSize)
                     THEN outputs[cur][t]
                     ELSE NegInf
        /\ tok \in Vocab
        /\ next_token_scores[tok] # NegInf
        /\ pc = "RUNNING" => Last(input_ids) = tok

\* C22: in every iteration the logits row read is the row at position
\* cur_input_len - 1 of the model output, the position of the last real
\* token, and the token drawn (so every token appended) is a vocabulary index
\* whose score in that row survived the top-k filter.
C22_ValidTopKTokens ==
    (InCall /\ sampled # <<>>) => SampledFromLastRealRow

\* what holds: the same for every call on a prompt of at least one token
ValidTopKTokensOnPrompt ==
    (InCall /\ sampled # <<>> /\ Len(prompt_ids) >= 1) => SampledFromLastRealRow

\* C23: process_logits leaves the array it is given untouched: after the
\* call, with cur_length < min_length or not, the caller's scores hold the
\* values they held before (the -inf goes to a copy that is returned).
C23_ArgumentUntouched ==
    fn = "process_logits" => fn_scores = fn_scores_in

\* C24: a call invokes the model once per iteration, each time on input_ids
\* as the previous iteration left it, and every invocation that returns is
\* followed by one sample; a call that returned made exactly (tokens appended)
\* + 1 invocations, its last sample being discarded, so it made one
\* invocation when it appended nothing.
C24_OneCallPerIteration ==
    [][/\ CallsModel
            => /\ IsPrefix(input_ids, model_input_ids')
               /\ dynamic_shapes => model_input_ids' = input_ids
               /\ Len(sampled') <= Len(sampled) + 1
       /\ pc = "RUNNING"
            => /\ model_calls' = model_calls + 1
               /\ pc' # "FAILED" => Len(sampled') = Len(sampled) + 1
       /\ pc' = "RUNNING"
            => /\ model_calls' = Len(Generated')
               /\ Generated' = sampled'
       /\ pc' = "DONE"
            => /\ model_calls' = Len(Generated') + 1
               /\ Len(sampled') = model_calls'
               /\ Generated' = SubSeq(sampled', 1, Len(sampled') - 1)
               /\ Len(Generated') = 0 => model_calls' = 1]_vars

\* a call that appended two tokens in three invocations and dropped a third
\* sample that was not eos
C24_Witness ==
    /\ pc = "DONE"
    /\ model_calls = 3
    /\ Len(Generated) = 2
    /\ Len(sampled) = 3
    /\ Last(sampled) # eos_token_id
    /\ dynamic_shapes

\* the two calls stand at the same point
SameRun ==
    /\ padded_run.pc = pc
    /\ padded_run.input_ids = input_ids
    /\ padded_run.attention_mask = attention_mask
    /\ padded_run.model_calls = model_calls

\* C25: on one prompt not longer than max_sequence_length, with a model whose
\* row at the last real position depends only on the real tokens and with the
\* same draws, the call with dynamic_shapes=True and the call with
\* dynamic_shapes=False stay in lock-step: after every iteration they hold the
\* same input_ids and attention_mask, have made the same number of model
\* calls, and they return together, with the same sequence.
C25_ModeEquivalence ==
    (padded_run.pc # "IDLE" /\ Len(prompt_ids) <= max_sequence_length) => SameRun

\* what holds: the same for every prompt of at least one token
ModeEquivalenceOnPrompt ==
    (padded_run.pc # "IDLE" /\ Len(prompt_ids) >= 1) => SameRun

\* C26: whatever chat calls were made before on the Conversation, the loop of
\* a chat call stays within the cap of 1000 also when eos is never sampled:
\* the model is never handed more than 1000 tokens and the loop makes at most
\* 1000 model calls.
C26_TurnBudget ==
    (pc # "IDLE" /\ max_sequence_length = ConverseMaxLength)
        => /\ Len(model_input_ids) <= ConverseMaxLength
           /\ model_calls <= ConverseMaxLength

====
